---- MODULE Spec2Model ----
(***************************************************************************)
(* Opportunity detection pipeline of the arbitrage system:                 *)
(*   app/core/arbitrage_detector.py   ArbitrageDetector                    *)
(*   app/utils/currency_converter.py  CurrencyConverter                    *)
(*   app/utils/fee_calculator.py      FeeCalculator                        *)
(*   app/models/models.py             PricePoint, ArbitrageOpportunity,    *)
(*                                    ExchangeRate                         *)
(*                                                                         *)
(* Units.  A PricePoint.price is kept in tenths of a currency unit         *)
(* (-1.0 is -10, 0.5 is 5, 50.0 is 500).  An exchange rate is kept in      *)
(* hundredths (0.93 is 93, the identity is 100).  Every converted amount,  *)
(* fee and profit is kept in 1/100000 of a currency unit, so that          *)
(* price * rate and amount * percent / 100 are exact integers.             *)
(* Time is counted in hours.                                               *)
(***************************************************************************)
EXTENDS Integers, Sequences, FiniteSets, TLC

VARIABLES
    now,                  \* datetime.utcnow(), in hours
    ticks,                \* number of clock steps taken (bounds the run)
    ARBITRAGE_CONFIG,     \* min_profit_margin / min_absolute_profit / max_investment
    price_points,         \* table price_points; the index is PricePoint.id
    exchange_rates,       \* table exchange_rates, in insertion order
    opportunities,        \* table arbitrage_opportunities; the index is the id
    FREE_TO_PLAY_CACHE,   \* module-level dict product_id -> bool ("unset" = no key)
    _cache,               \* CurrencyConverter._cache of a long-lived converter
    _fallback_cache,      \* CurrencyConverter._fallback_cache of that converter
    pc,                   \* where each job's monitor_prices call stands
    passes,               \* how many monitor_prices calls each job has started
    session,              \* the changes pending in each call's Session()
    committed,            \* the changes committed to the database, by call
    commit_failure,       \* whether a commit of the job's call failed, and what it lost
    ret                   \* the handler that has just returned and what it returned

vars == <<now, ticks, ARBITRAGE_CONFIG, price_points, exchange_rates,
          opportunities, FREE_TO_PLAY_CACHE, _cache, _fallback_cache,
          pc, passes, session, committed, commit_failure, ret>>

\* the state of the jobs that run monitor_prices
pass_vars == <<pc, passes, session, committed, commit_failure>>

\* the state of the long-lived converter
converter_vars == <<_cache, _fallback_cache>>

----------------------------------------------------------------------------
(* Bounds of the model *)

MaxPoints == 3
MaxTicks == 1
MaxOpps == 2
MaxRates == 3
MaxRatio == 50
MaxPasses == 1
MaxSeriesLen == 11

----------------------------------------------------------------------------
(* Data the tables hold *)

Products == {1, 2}

Marketplaces == {1, 2, 3}

\* Marketplace.name.lower() of the three marketplace rows
MarketplaceName(m) ==
    CASE m = 1 -> "steam"
      [] m = 2 -> "epic games"
      [] OTHER -> "gog"

Currencies == {"EUR", "USD", "GBP"}

BASE_CURRENCY == "USD"

\* the 'N/A' placeholder price -1.0, in tenths
SENTINEL_PRICE == 0 - 10

\* price < 1.0, in tenths
FREE_PRICE_THRESHOLD == 10

\* len(prices) < 10: the shortest series _detect_patterns looks at
MIN_PATTERN_POINTS == 10

\* Marketplace.config['fees'] as FeeCalculator._load_fee_configs collects it:
\* steam has no fee schedule, epic games a fixed transaction fee of 1.0 and a
\* payment fee of 2 %, gog a platform fee of 30 %.
NoFee == [has_platform |-> FALSE, platform_fee |-> 0,
          transaction |-> "none", transaction_fee |-> 0,
          has_payment |-> FALSE, payment_fee |-> 0]

_fee_configs ==
    (2 :> [NoFee EXCEPT !.transaction = "fixed", !.transaction_fee = 100000,
                        !.has_payment = TRUE, !.payment_fee = 2])
    @@ (3 :> [NoFee EXCEPT !.has_platform = TRUE, !.platform_fee = 30])

\* What a marketplace's scraper records: Steam points are forced to EUR and
\* Epic Games points are always the N/A placeholder in EUR (monitor_prices);
\* the third marketplace quotes product 1 in any currency and product 2 in EUR.
Listings ==
    { [product_id |-> 1, marketplace_id |-> 1, price |-> pr, currency |-> "EUR"]
        : pr \in {5, 500} }
    \cup { [product_id |-> 1, marketplace_id |-> 2, price |-> SENTINEL_PRICE,
            currency |-> "EUR"] }
    \cup { [product_id |-> 1, marketplace_id |-> 3, price |-> 700, currency |-> c]
        : c \in Currencies }
    \cup { [product_id |-> 2, marketplace_id |-> 3, price |-> 700,
            currency |-> "EUR"] }

\* ARBITRAGE_CONFIG as read from the environment: the defaults (10 %, 5.0) and
\* a deployment that sets no floor on the margin (-10000 %, 0.0).
\* min_absolute_profit and max_investment are in 1/100000 units, max_hold_time
\* in hours.
Configs ==
    { [min_profit_margin |-> 10, min_absolute_profit |-> 500000,
       max_investment |-> 100000000, max_hold_time |-> 72],
      [min_profit_margin |-> 0 - 10000, min_absolute_profit |-> 0,
       max_investment |-> 100000000, max_hold_time |-> 72] }

\* deployments that set MAX_INVESTMENT to 40.0 and to 60.0, the other
\* settings left at their defaults
LowInvestmentConfigs ==
    { [min_profit_margin |-> 10, min_absolute_profit |-> 500000,
       max_investment |-> m, max_hold_time |-> 72] : m \in {4000000, 6000000} }

\* what the table exchange_rates holds when the process starts: a GBP -> USD
\* rate of 1.25 stored at that moment (it leaves the validity window as the
\* clock moves on)
StoredRates ==
    << [from_currency |-> "GBP", to_currency |-> "USD", rate |-> 125,
        timestamp |-> 0] >>

\* exchange-rate histories of the last 30 days a risk score is computed over:
\* the one the process starts with, a EUR -> GBP rate that moved from 0.80 to
\* 1.20, and a EUR -> USD rate that jumped from 0.01 to 4.00
RateHistories ==
    { StoredRates,
      << [from_currency |-> "EUR", to_currency |-> "GBP", rate |-> 80,
          timestamp |-> 0],
         [from_currency |-> "EUR", to_currency |-> "GBP", rate |-> 120,
          timestamp |-> 0] >>,
      << [from_currency |-> "EUR", to_currency |-> "USD", rate |-> 1,
          timestamp |-> 0],
         [from_currency |-> "EUR", to_currency |-> "USD", rate |-> 1,
          timestamp |-> 0],
         [from_currency |-> "EUR", to_currency |-> "USD", rate |-> 400,
          timestamp |-> 0] >> }

\* where a risk computation may raise: nowhere, inside one of the three
\* factor helpers that query or compute, or in _calculate_risk_score itself
RiskFailures ==
    {"none", "price_volatility", "time_sensitivity", "currency_risk", "risk_score"}

\* what calls monitor_prices: the interval job and the one-off startup job of
\* start_scheduler, and a request to /api/opportunities
Jobs == {"price_monitor", "initial_price_monitor", "get_opportunities"}

\* the kinds of change a monitor_prices call makes to the database
ChangeKinds ==
    {"status", "identifier", "price_point", "opportunity", "notification_log"}

\* the changes of the job's current call, as they are recorded once committed
ChangesOf(job, kinds) == { <<job, passes[job], kind>> : kind \in kinds }

\* no commit of the call has failed
NoFailure == [occurred |-> FALSE, lost |-> {}]

\* how far the clock moves between two operations, in hours: within the
\* one-hour window, past it, and past the 24-hour window
ClockSteps == {1, 2, 25}

\* Python's None where a price was expected
None == [amount |-> 0, currency |-> "None"]

\* Python's None where a rate was expected
NoRate == [found |-> FALSE, rate |-> 0]

----------------------------------------------------------------------------
(* CurrencyConverter *)

\* rows of exchange_rates for the pair inside the validity window,
\* ExchangeRate.timestamp >= utcnow() - _cache_duration
ValidRates(from_currency, to_currency) ==
    { i \in DOMAIN exchange_rates :
        /\ exchange_rates[i].from_currency = from_currency
        /\ exchange_rates[i].to_currency = to_currency
        /\ exchange_rates[i].timestamp >= now - 1 }

\* order_by(timestamp.desc()).first(): the latest row, None when there is none
_get_exchange_rate(from_currency, to_currency) ==
    LET rows == ValidRates(from_currency, to_currency) IN
    IF rows = {} THEN NoRate
    ELSE LET latest == CHOOSE i \in rows :
                 \A j \in rows :
                     \/ exchange_rates[j].timestamp < exchange_rates[i].timestamp
                     \/ (exchange_rates[j].timestamp = exchange_rates[i].timestamp
                         /\ j <= i)
         IN [found |-> TRUE, rate |-> exchange_rates[latest].rate]

\* convert(amount, from_currency, to_currency) on a converter whose caches are
\* empty (every pass builds a new detector and converter).  The result carries
\* the currency the amount is denominated in.
convert(amount, from_currency, to_currency) ==
    IF from_currency = to_currency
    THEN [amount |-> amount * 100 * 100, currency |-> to_currency]
    ELSE LET rate == _get_exchange_rate(from_currency, to_currency) IN
         IF rate = NoRate
         THEN IF from_currency = "USD" /\ to_currency = "EUR"
              THEN [amount |-> amount * 93 * 100, currency |-> to_currency]
              ELSE IF from_currency = "EUR" /\ to_currency = "USD"
              THEN [amount |-> amount * 108 * 100, currency |-> to_currency]
              ELSE None
         ELSE [amount |-> amount * rate.rate * 100, currency |-> to_currency]

\* the conversion with a failed convert priced as zero
ConvertedPrice_zero_filled(pp) ==
    IF pp.currency # "EUR"
    THEN IF convert(pp.price, pp.currency, BASE_CURRENCY) = None
         THEN [amount |-> 0, currency |-> BASE_CURRENCY]
         ELSE convert(pp.price, pp.currency, BASE_CURRENCY)
    ELSE [amount |-> pp.price * 100 * 100, currency |-> pp.currency]

\* find_opportunities, lines 81-87 and 105-111: a price whose currency is
\* 'EUR' is taken as it is, any other is handed to convert with the default
\* target currency
ConvertedPrice(pp) ==
    IF pp.currency # "EUR"
    THEN convert(pp.price, pp.currency, BASE_CURRENCY)
    ELSE [amount |-> pp.price * 100 * 100, currency |-> pp.currency]

\* the keys f"{from_currency}_{to_currency}" of the converter's two caches
CurrencyPairs ==
    { pair \in Currencies \X Currencies : pair[1] # pair[2] }

\* no entry under a key of _cache
NoCachedRate == [found |-> FALSE, rate |-> 0, timestamp |-> 0]

\* the rates update_rate is called with (1.10 and 1.30, in hundredths)
NewRates == {110, 130}

\* _get_exchange_rate on a converter that has a cache: the rate returned and
\* the cache left behind.  A cached rate is returned while it is less than
\* _cache_duration old; otherwise the table is queried and a row found is put
\* in the cache under its own timestamp.
_get_exchange_rate_cached(cache, from_currency, to_currency) ==
    LET rate_data == cache[<<from_currency, to_currency>>]
        rows == ValidRates(from_currency, to_currency)
    IN IF rate_data.found /\ now - rate_data.timestamp < 1
       THEN [found |-> TRUE, rate |-> rate_data.rate, cache |-> cache]
       ELSE IF rows = {} THEN [found |-> FALSE, rate |-> 0, cache |-> cache]
       ELSE LET latest == CHOOSE i \in rows :
                    \A j \in rows :
                        \/ exchange_rates[j].timestamp < exchange_rates[i].timestamp
                        \/ (exchange_rates[j].timestamp = exchange_rates[i].timestamp
                            /\ j <= i)
            IN [found |-> TRUE, rate |-> exchange_rates[latest].rate,
                cache |-> [cache EXCEPT ![<<from_currency, to_currency>>] =
                              [found |-> TRUE, rate |-> exchange_rates[latest].rate,
                               timestamp |-> exchange_rates[latest].timestamp]]]

\* hasattr(self, '_fallback_cache') and fallback_key in self._fallback_cache
FallbackCached(fallback_cache, from_currency, to_currency) ==
    fallback_cache[<<from_currency, to_currency>>] # 0

\* convert on a converter that has caches: the value returned and the two
\* caches left behind
convert_cached(cache, fallback_cache, amount, from_currency, to_currency) ==
    IF from_currency = to_currency
    THEN [value |-> [amount |-> amount * 100 * 100, currency |-> to_currency],
          cache |-> cache, fallback_cache |-> fallback_cache]
    ELSE IF FallbackCached(fallback_cache, from_currency, to_currency)
    THEN [value |-> [amount |-> amount
                                  * fallback_cache[<<from_currency, to_currency>>]
                                  * 100,
                     currency |-> to_currency],
          cache |-> cache, fallback_cache |-> fallback_cache]
    ELSE LET rate == _get_exchange_rate_cached(cache, from_currency, to_currency) IN
         IF ~rate.found
         THEN IF from_currency = "USD" /\ to_currency = "EUR"
              THEN [value |-> [amount |-> amount * 93 * 100, currency |-> to_currency],
                    cache |-> rate.cache,
                    fallback_cache |->
                        [fallback_cache EXCEPT ![<<from_currency, to_currency>>] = 93]]
              ELSE IF from_currency = "EUR" /\ to_currency = "USD"
              THEN [value |-> [amount |-> amount * 108 * 100, currency |-> to_currency],
                    cache |-> rate.cache,
                    fallback_cache |->
                        [fallback_cache EXCEPT ![<<from_currency, to_currency>>] = 108]]
              ELSE [value |-> None, cache |-> rate.cache,
                    fallback_cache |-> fallback_cache]
         ELSE [value |-> [amount |-> amount * rate.rate * 100, currency |-> to_currency],
               cache |-> rate.cache, fallback_cache |-> fallback_cache]

----------------------------------------------------------------------------
(* FeeCalculator *)

calculate_fees(marketplace_id, price) ==
    IF marketplace_id \notin DOMAIN _fee_configs THEN 0
    ELSE LET fees == _fee_configs[marketplace_id]
             platform == IF fees.has_platform
                         THEN (price * fees.platform_fee) \div 100 ELSE 0
             transaction ==
                 CASE fees.transaction = "fixed" -> fees.transaction_fee
                   [] fees.transaction = "percentage" ->
                          (price * fees.transaction_fee) \div 100
                   [] OTHER -> 0
             payment == IF fees.has_payment
                        THEN (price * fees.payment_fee) \div 100 ELSE 0
         IN platform + transaction + payment

calculate_net_profit(buy_price, sell_price, source_marketplace_id, target_marketplace_id) ==
    LET buy_fees == calculate_fees(target_marketplace_id, buy_price)
        sell_fees == calculate_fees(source_marketplace_id, sell_price)
        gross_profit == sell_price - buy_price
        total_fees == buy_fees + sell_fees
    IN [gross_profit |-> gross_profit,
        total_fees |-> total_fees,
        net_profit |-> gross_profit - total_fees,
        buy_fees |-> buy_fees,
        sell_fees |-> sell_fees]

----------------------------------------------------------------------------
(* ArbitrageDetector._is_free_to_play *)

\* price points of the product with timestamp >= utcnow() - 24 hours
RecentPricesOfProduct(product_id) ==
    { i \in DOMAIN price_points :
        /\ price_points[i].product_id = product_id
        /\ price_points[i].timestamp >= now - 24 }

\* marketplace_name in ['steam', 'epic games', 'origin'] and price.price < 1.0
IsFreePricePoint(pp) ==
    /\ MarketplaceName(pp.marketplace_id) \in {"steam", "epic games", "origin"}
    /\ pp.price < FREE_PRICE_THRESHOLD

\* the classification made from the price points, the cache left unread
_is_free_to_play_uncached(cache, product_id) ==
    LET recent_prices == RecentPricesOfProduct(product_id) IN
    IF recent_prices = {}
    THEN [result |-> FALSE, cache |-> cache]
    ELSE IF \E i \in recent_prices : IsFreePricePoint(price_points[i])
    THEN [result |-> TRUE, cache |-> [cache EXCEPT ![product_id] = "true"]]
    ELSE [result |-> FALSE, cache |-> [cache EXCEPT ![product_id] = "false"]]

\* the classification that stores False for a product without price points
_is_free_to_play_storing_absence(cache, product_id) ==
    IF cache[product_id] # "unset"
    THEN [result |-> (cache[product_id] = "true"), cache |-> cache]
    ELSE IF \E i \in RecentPricesOfProduct(product_id) : IsFreePricePoint(price_points[i])
    THEN [result |-> TRUE, cache |-> [cache EXCEPT ![product_id] = "true"]]
    ELSE [result |-> FALSE, cache |-> [cache EXCEPT ![product_id] = "false"]]

\* The call on the cache it is given: the value returned and the cache it
\* leaves behind.
_is_free_to_play(cache, product_id) ==
    IF cache[product_id] # "unset"
    THEN [result |-> (cache[product_id] = "true"), cache |-> cache]
    ELSE LET recent_prices == RecentPricesOfProduct(product_id) IN
         IF recent_prices = {}
         THEN [result |-> FALSE, cache |-> cache]
         ELSE IF \E i \in recent_prices : IsFreePricePoint(price_points[i])
         THEN [result |-> TRUE,
               cache |-> [cache EXCEPT ![product_id] = "true"]]
         ELSE [result |-> FALSE,
               cache |-> [cache EXCEPT ![product_id] = "false"]]

----------------------------------------------------------------------------
(* ArbitrageDetector._analyze_opportunity *)

\* the analysis without the N/A check
HasSentinelPrice_unchecked(source_price, target_price) == FALSE

\* source_price.price == -1 or target_price.price == -1
HasSentinelPrice(source_price, target_price) ==
    source_price.price = SENTINEL_PRICE \/ target_price.price = SENTINEL_PRICE

\* the margin test written with <= : a margin on the boundary is rejected
BelowMinimum_inclusive(net_profit, converted_buy_price) ==
    \/ converted_buy_price = 0
    \/ (converted_buy_price > 0
        /\ net_profit <= ARBITRAGE_CONFIG.min_profit_margin
                             * (converted_buy_price \div 100))
    \/ (converted_buy_price < 0
        /\ net_profit >= ARBITRAGE_CONFIG.min_profit_margin
                             * (converted_buy_price \div 100))
    \/ net_profit < ARBITRAGE_CONFIG.min_absolute_profit

\* profit_margin < min_profit_margin or net_profit < min_absolute_profit, with
\* profit_margin = net_profit / converted_buy_price * 100 (the division raises
\* on a zero buy price and the handler then returns None)
BelowMinimum(net_profit, converted_buy_price) ==
    \/ converted_buy_price = 0
    \/ (converted_buy_price > 0
        /\ net_profit < ARBITRAGE_CONFIG.min_profit_margin
                            * (converted_buy_price \div 100))
    \/ (converted_buy_price < 0
        /\ net_profit > ARBITRAGE_CONFIG.min_profit_margin
                            * (converted_buy_price \div 100))
    \/ net_profit < ARBITRAGE_CONFIG.min_absolute_profit

\* The record of one call: its arguments, the fee model's answer and whether
\* an ArbitrageOpportunity came back.
_analyze_opportunity(source_id, target_id, converted_buy_price, converted_sell_price) ==
    LET source_price == price_points[source_id]
        target_price == price_points[target_id]
        profit_data == calculate_net_profit(converted_buy_price.amount,
                                            converted_sell_price.amount,
                                            source_price.marketplace_id,
                                            target_price.marketplace_id)
    IN [source_price_id |-> source_id,
        target_price_id |-> target_id,
        converted_buy_price |-> converted_buy_price,
        converted_sell_price |-> converted_sell_price,
        profit_data |-> profit_data,
        created |-> /\ ~HasSentinelPrice(source_price, target_price)
                    /\ ~BelowMinimum(profit_data.net_profit,
                                     converted_buy_price.amount)]

----------------------------------------------------------------------------
(* ArbitrageDetector._calculate_risk_score *)
(* Factors are kept in tenths (0.8 is 8), weights in tenths, and a score in *)
(* hundredths (0.5 is 50).                                                  *)

RECURSIVE SumOf(_, _)
\* sum(values[i] for i in indices)
SumOf(values, indices) ==
    IF indices = {} THEN 0
    ELSE LET i == CHOOSE j \in indices : TRUE
         IN values[i] + SumOf(values, indices \ {i})

\* numpy std(values) / mean(values) for a positive mean, in tenths rounded
\* down and no larger than MaxRatio: with n values of sum S and sum of squares
\* Q, the ratio is sqrt(n*Q - S*S) / S, and k/10 is at most that ratio exactly
\* when (k*S)^2 <= 100 * (n*Q - S*S)
StdOverMean(values) ==
    LET n == Cardinality(DOMAIN values)
        S == SumOf(values, DOMAIN values)
        Q == SumOf([i \in DOMAIN values |-> values[i] * values[i]], DOMAIN values)
        V == 100 * (n * Q - S * S)
        fits == { k \in 0..MaxRatio : k = 0 \/ k * S <= V \div (k * S) }
    IN CHOOSE k \in fits : \A j \in fits : j <= k

\* the smaller of two numbers
Min(a, b) == IF a < b THEN a ELSE b

\* the volatility returned without min(volatility, 1)
Normalized_unclamped(values) ==
    IF SumOf(values, DOMAIN values) > 0 THEN StdOverMean(values) ELSE 0

\* volatility = std / mean if mean > 0 else 0; return min(volatility, 1)
Normalized(values) ==
    IF SumOf(values, DOMAIN values) > 0 THEN Min(StdOverMean(values), 10) ELSE 0

\* price points of the product of the last 30 days
price_history(product_id) ==
    { i \in DOMAIN price_points :
        /\ price_points[i].product_id = product_id
        /\ price_points[i].timestamp >= now - 720 }

\* converted_price of the stored price points is the price itself
\* (monitor_prices)
_calculate_price_volatility(product_id, failed) ==
    IF failed THEN 5
    ELSE IF price_history(product_id) = {} THEN 5
    ELSE Normalized([i \in price_history(product_id) |-> price_points[i].price])

_get_marketplace_reliability(marketplace_id) == 8

_calculate_time_sensitivity(is_sale, failed) ==
    IF failed THEN 5
    ELSE IF is_sale THEN 7
    ELSE 3

\* exchange rates of the pair of the last 30 days
rate_history(source_currency, target_currency) ==
    { i \in DOMAIN exchange_rates :
        /\ exchange_rates[i].from_currency = source_currency
        /\ exchange_rates[i].to_currency = target_currency
        /\ exchange_rates[i].timestamp >= now - 720 }

_calculate_currency_risk(source_currency, target_currency, failed) ==
    IF source_currency = target_currency THEN 1
    ELSE IF failed THEN 5
    ELSE IF rate_history(source_currency, target_currency) = {} THEN 5
    ELSE Normalized([i \in rate_history(source_currency, target_currency)
                        |-> exchange_rates[i].rate])

\* the except branch, as if it returned what the try block had computed
ScoreOnError_computed(computed) == computed

\* return 0.5  # Return medium risk on error
ScoreOnError(computed) == 50

\* One call: the factors computed and the score returned.  is_sale is what
\* the two price points' metadata say, failure where the call raises.
_calculate_risk_score(source_id, target_id, is_sale, failure) ==
    LET source_price == price_points[source_id]
        target_price == price_points[target_id]
        risk_factors ==
            [price_volatility |->
                 _calculate_price_volatility(source_price.product_id,
                                             failure = "price_volatility"),
             marketplace_reliability |->
                 _get_marketplace_reliability(source_price.marketplace_id),
             time_sensitivity |->
                 _calculate_time_sensitivity(is_sale, failure = "time_sensitivity"),
             currency_risk |->
                 _calculate_currency_risk(source_price.currency, target_price.currency,
                                          failure = "currency_risk")]
        risk_score == 3 * risk_factors.price_volatility
                      + 3 * risk_factors.marketplace_reliability
                      + 2 * risk_factors.time_sensitivity
                      + 2 * risk_factors.currency_risk
        clamped == IF risk_score < 0 THEN 0 ELSE Min(risk_score, 100)
    IN [source_price_id |-> source_id, target_price_id |-> target_id,
        is_sale |-> is_sale, failure |-> failure,
        risk_factors |-> risk_factors,
        score |-> IF failure = "risk_score" THEN ScoreOnError(clamped) ELSE clamped]

----------------------------------------------------------------------------
(* ArbitrageDetector.find_opportunities *)

\* PricePoint.timestamp >= current_time - 1 hour
recent_prices == { i \in DOMAIN price_points : price_points[i].timestamp >= now - 1 }

\* the match-candidate query without its product filter
target_prices_any_product(source_id) ==
    { i \in DOMAIN price_points :
        /\ price_points[i].marketplace_id # price_points[source_id].marketplace_id
        /\ price_points[i].timestamp >= now - 1 }

\* the match-candidate query of one source price point
target_prices(source_id) ==
    { i \in DOMAIN price_points :
        /\ price_points[i].product_id = price_points[source_id].product_id
        /\ price_points[i].marketplace_id # price_points[source_id].marketplace_id
        /\ price_points[i].timestamp >= now - 1 }

\* converted_sell_price is None or converted_sell_price <= converted_buy_price
SkipTarget(converted_sell_price, converted_buy_price) ==
    \/ converted_sell_price = None
    \/ converted_sell_price.amount <= converted_buy_price.amount

\* the pair key with min written twice
pair_key_min_only(source_id, target_id) ==
    << IF source_id < target_id THEN source_id ELSE target_id,
       IF source_id < target_id THEN source_id ELSE target_id >>

\* (min(source_price.id, target_price.id), max(source_price.id, target_price.id))
pair_key(source_id, target_id) ==
    << IF source_id < target_id THEN source_id ELSE target_id,
       IF source_id < target_id THEN target_id ELSE source_id >>

\* the free-to-play branch without its 'continue'
SkipFreeToPlay_never(is_free) == FALSE

\* the 'continue' taken for a product found to be free-to-play
SkipFreeToPlay(is_free) == is_free

\* the buy-side test without its max_investment half
ExceedsMaxInvestment_never(converted_buy_price) == FALSE

\* converted_buy_price > self.max_investment
ExceedsMaxInvestment(converted_buy_price) ==
    converted_buy_price.amount > ARBITRAGE_CONFIG.max_investment

\* the rows of a query in the order the database hands them out
InOrder(order, rows) == SelectSeq(order, LAMBDA i : i \in rows)

\* body of the inner loop for one target price point
TargetStep(source_id, target_id, converted_buy_price, acc) ==
    LET converted_sell_price == ConvertedPrice(price_points[target_id]) IN
    IF SkipTarget(converted_sell_price, converted_buy_price) THEN acc
    ELSE IF pair_key(source_id, target_id) \in acc.processed_pairs THEN acc
    ELSE LET call == _analyze_opportunity(source_id, target_id,
                                          converted_buy_price,
                                          converted_sell_price)
             logged == [acc EXCEPT !.analysed = @ \cup {call}]
         IN IF call.created
            THEN [logged EXCEPT
                    !.opportunities = Append(@, call),
                    !.processed_pairs = @ \cup {pair_key(source_id, target_id)}]
            ELSE logged

RECURSIVE TargetLoop(_, _, _, _)
TargetLoop(source_id, targets, converted_buy_price, acc) ==
    IF targets = << >> THEN acc
    ELSE TargetLoop(source_id, Tail(targets), converted_buy_price,
                    TargetStep(source_id, Head(targets), converted_buy_price, acc))

\* body of the outer loop for one source price point
SourceStep(order, source_id, acc) ==
    LET product_id == price_points[source_id].product_id IN
    IF product_id \in acc.checked_free_games THEN acc
    ELSE LET check == _is_free_to_play(acc.cache, product_id)
             seen == [acc EXCEPT
                        !.cache = check.cache,
                        !.free_seen = IF check.result
                                      THEN @ \cup {product_id} ELSE @]
         IN IF SkipFreeToPlay(check.result)
            THEN [seen EXCEPT !.checked_free_games = @ \cup {product_id}]
            ELSE LET converted_buy_price == ConvertedPrice(price_points[source_id]) IN
                 IF \/ converted_buy_price = None
                    \/ ExceedsMaxInvestment(converted_buy_price)
                 THEN seen
                 ELSE TargetLoop(source_id, InOrder(order, target_prices(source_id)),
                                 converted_buy_price, seen)

RECURSIVE SourceLoop(_, _, _)
SourceLoop(order, rest, acc) ==
    IF rest = << >> THEN acc
    ELSE SourceLoop(order, Tail(rest), SourceStep(order, Head(rest), acc))

\* One call, the database handing out rows in the given order: the list
\* returned, the cache left behind and what the call did on the way
\* (free_seen: the products _is_free_to_play answered True for; analysed: the
\* _analyze_opportunity calls).
find_opportunities(order) ==
    SourceLoop(order, InOrder(order, recent_prices),
               [cache |-> FREE_TO_PLAY_CACHE,
                checked_free_games |-> {},
                free_seen |-> {},
                processed_pairs |-> {},
                analysed |-> {},
                opportunities |-> << >>])

\* the orders in which the database may hand out the price points
Orders ==
    { o \in [1..Len(price_points) -> 1..Len(price_points)] :
        \A i, j \in 1..Len(price_points) : i # j => o[i] # o[j] }

----------------------------------------------------------------------------
(* ArbitrageDetector.cleanup_free_to_play_opportunities *)

\* body of the loop for one active opportunity
CleanupStep(opp_id, acc) ==
    LET product_id == price_points[opportunities[opp_id].source_price_id].product_id
        check == _is_free_to_play(acc.cache, product_id)
    IN IF check.result
       THEN [cache |-> check.cache,
             expired |-> acc.expired \cup {opp_id},
             count |-> acc.count + 1]
       ELSE [acc EXCEPT !.cache = check.cache]

RECURSIVE CleanupLoop(_, _)
CleanupLoop(opp_ids, acc) ==
    IF opp_ids = << >> THEN acc
    ELSE CleanupLoop(Tail(opp_ids), CleanupStep(Head(opp_ids), acc))

\* the query without its status filter
ActiveOpportunities_all == [i \in DOMAIN opportunities |-> i]

\* filter_by(status='active').all()
ActiveOpportunities ==
    SelectSeq([i \in DOMAIN opportunities |-> i],
              LAMBDA i : opportunities[i].status = "active")

cleanup_free_to_play_opportunities ==
    CleanupLoop(ActiveOpportunities,
                [cache |-> FREE_TO_PLAY_CACHE, expired |-> {}, count |-> 0])

----------------------------------------------------------------------------
(* State machine *)

\* what a handler hands back: its name, its value (a count), whether it ended
\* in its except branch and, for find_opportunities, the list returned with
\* what the call did on the way; call holds the record of the call where one
\* is kept
Returned(op, value, error) ==
    [op |-> op, value |-> value, error |-> error, current_time |-> now,
     opportunities |-> << >>, analysed |-> {}, free_seen |-> {}, call |-> {}]

\* the record of the call a handler has returned from
CallOf(returned) == CHOOSE call \in returned.call : TRUE

Init ==
    /\ now = 0
    /\ ticks = 0
    /\ ARBITRAGE_CONFIG \in Configs
    /\ price_points = << >>
    /\ exchange_rates = StoredRates
    /\ opportunities = << >>
    /\ FREE_TO_PLAY_CACHE = [p \in Products |-> "unset"]
    /\ _cache = [pair \in CurrencyPairs |-> NoCachedRate]
    /\ _fallback_cache = [pair \in CurrencyPairs |-> 0]
    /\ pc = [job \in Jobs |-> "idle"]
    /\ passes = [job \in Jobs |-> 0]
    /\ session = [job \in Jobs |-> {}]
    /\ committed = {}
    /\ commit_failure = [job \in Jobs |-> NoFailure]
    /\ ret = Returned("none", 0, FALSE)

\* the clock moves on
Tick ==
    /\ ticks < MaxTicks
    /\ \E d \in ClockSteps : now' = now + d
    /\ ticks' = ticks + 1
    /\ ret' = [Returned("none", 0, FALSE) EXCEPT !.current_time = now']
    /\ UNCHANGED <<ARBITRAGE_CONFIG, price_points, exchange_rates, opportunities,
                   FREE_TO_PLAY_CACHE>>
    /\ UNCHANGED converter_vars
    /\ UNCHANGED pass_vars

\* a scraper's observation is stored: session.add(PricePoint(...)); commit
RecordPrice ==
    /\ Len(price_points) < MaxPoints
    /\ \E l \in Listings :
          price_points' = Append(price_points,
              [product_id |-> l.product_id, marketplace_id |-> l.marketplace_id,
               price |-> l.price, currency |-> l.currency, timestamp |-> now])
    /\ ret' = Returned("none", 0, FALSE)
    /\ UNCHANGED <<now, ticks, ARBITRAGE_CONFIG, exchange_rates, opportunities,
                   FREE_TO_PLAY_CACHE>>
    /\ UNCHANGED converter_vars
    /\ UNCHANGED pass_vars

\* the row stored if the status column had no default
OpportunityRow_no_default(call) ==
    [source_price_id |-> call.source_price_id,
     target_price_id |-> call.target_price_id,
     absolute_profit |-> call.profit_data.net_profit,
     status |-> "None",
     detected_at |-> now,
     expires_at |-> now + ARBITRAGE_CONFIG.max_hold_time]

\* the row monitor_prices stores for a returned opportunity (session.add,
\* commit): status defaults to 'active', detected_at is utcnow() and expires_at
\* is utcnow() + max_hold_time hours
OpportunityRow(call) ==
    [source_price_id |-> call.source_price_id,
     target_price_id |-> call.target_price_id,
     absolute_profit |-> call.profit_data.net_profit,
     status |-> "active",
     detected_at |-> now,
     expires_at |-> now + ARBITRAGE_CONFIG.max_hold_time]

\* A detection: find_opportunities runs over the rows in some order and the
\* caller stores what it returns.
FindOpportunities ==
    \E order \in Orders :
        LET run == find_opportunities(order) IN
        /\ Len(opportunities) + Len(run.opportunities) <= MaxOpps
        /\ FREE_TO_PLAY_CACHE' = run.cache
        /\ ret' = [Returned("find_opportunities", Len(run.opportunities), FALSE)
                     EXCEPT !.opportunities = run.opportunities,
                            !.analysed = run.analysed,
                            !.free_seen = run.free_seen]
        /\ opportunities' = opportunities \o
              [i \in 1..Len(run.opportunities) |-> OpportunityRow(run.opportunities[i])]
        /\ UNCHANGED <<now, ticks, ARBITRAGE_CONFIG, price_points, exchange_rates>>
        /\ UNCHANGED converter_vars
        /\ UNCHANGED pass_vars

\* A cleanup.  The store may fail on the query (nothing has happened yet) or
\* on the commit (the classifications are cached already): the handler then
\* rolls the statuses back and returns 0.
Cleanup ==
    \E failure \in {"none", "query", "commit"} :
        LET run == cleanup_free_to_play_opportunities IN
        /\ failure = "commit" => run.count > 0
        /\ FREE_TO_PLAY_CACHE' = IF failure = "query" THEN FREE_TO_PLAY_CACHE
                                 ELSE run.cache
        /\ opportunities' =
              IF failure = "none"
              THEN [i \in DOMAIN opportunities |->
                       IF i \in run.expired
                       THEN [opportunities[i] EXCEPT !.status = "expired"]
                       ELSE opportunities[i]]
              ELSE opportunities
        /\ ret' = Returned("cleanup_free_to_play_opportunities",
                           IF failure = "none" THEN run.count ELSE 0,
                           failure # "none")
        /\ UNCHANGED <<now, ticks, ARBITRAGE_CONFIG, price_points, exchange_rates>>
        /\ UNCHANGED converter_vars
        /\ UNCHANGED pass_vars

Next ==
    \/ Tick
    \/ RecordPrice
    \/ FindOpportunities
    \/ Cleanup

Spec == Init /\ [][Next]_vars

----------------------------------------------------------------------------
(* The pipeline with the Steam scraper's free-to-play flag *)

\* monitor_prices, lines 216-224: the Steam scraper reports is_free for a
\* product that is not yet known to be free-to-play (line 181 filters the
\* known ones out); no price point is stored and the cache entry is set.
SteamReportsFree ==
    /\ \E p \in Products :
          /\ FREE_TO_PLAY_CACHE[p] # "true"
          /\ FREE_TO_PLAY_CACHE' = [FREE_TO_PLAY_CACHE EXCEPT ![p] = "true"]
    /\ ret' = Returned("none", 0, FALSE)
    /\ UNCHANGED <<now, ticks, ARBITRAGE_CONFIG, price_points, exchange_rates,
                   opportunities>>
    /\ UNCHANGED converter_vars
    /\ UNCHANGED pass_vars

NextLifecycle ==
    \/ Tick
    \/ RecordPrice
    \/ SteamReportsFree
    \/ FindOpportunities
    \/ Cleanup

SpecLifecycle == Init /\ [][NextLifecycle]_vars

----------------------------------------------------------------------------
(* The pipeline of a deployment with a low MAX_INVESTMENT *)

InitInvestment ==
    /\ now = 0
    /\ ticks = 0
    /\ ARBITRAGE_CONFIG \in LowInvestmentConfigs
    /\ price_points = << >>
    /\ exchange_rates = StoredRates
    /\ opportunities = << >>
    /\ FREE_TO_PLAY_CACHE = [p \in Products |-> "unset"]
    /\ _cache = [pair \in CurrencyPairs |-> NoCachedRate]
    /\ _fallback_cache = [pair \in CurrencyPairs |-> 0]
    /\ pc = [job \in Jobs |-> "idle"]
    /\ passes = [job \in Jobs |-> 0]
    /\ session = [job \in Jobs |-> {}]
    /\ committed = {}
    /\ commit_failure = [job \in Jobs |-> NoFailure]
    /\ ret = Returned("none", 0, FALSE)

SpecInvestment == InitInvestment /\ [][Next]_vars

----------------------------------------------------------------------------
(* Risk scoring over a table of price points and a rate history *)

InitRisk ==
    /\ now = 0
    /\ ticks = 0
    /\ ARBITRAGE_CONFIG = CHOOSE c \in Configs : c.min_profit_margin = 10
    /\ price_points = << >>
    /\ exchange_rates \in RateHistories
    /\ opportunities = << >>
    /\ FREE_TO_PLAY_CACHE = [p \in Products |-> "unset"]
    /\ _cache = [pair \in CurrencyPairs |-> NoCachedRate]
    /\ _fallback_cache = [pair \in CurrencyPairs |-> 0]
    /\ pc = [job \in Jobs |-> "idle"]
    /\ passes = [job \in Jobs |-> 0]
    /\ session = [job \in Jobs |-> {}]
    /\ committed = {}
    /\ commit_failure = [job \in Jobs |-> NoFailure]
    /\ ret = Returned("none", 0, FALSE)

\* _calculate_risk_score(source_price, target_price) is called for two stored
\* price points; a failure in the currency helper can only happen after its
\* same-currency return
CalculateRiskScore ==
    /\ \E source_id, target_id \in DOMAIN price_points :
          \E is_sale \in BOOLEAN, failure \in RiskFailures :
              /\ source_id # target_id
              /\ failure = "currency_risk"
                    => price_points[source_id].currency
                         # price_points[target_id].currency
              /\ ret' = Returned("_calculate_risk_score",
                                 _calculate_risk_score(source_id, target_id,
                                                       is_sale, failure),
                                 FALSE)
    /\ UNCHANGED <<now, ticks, ARBITRAGE_CONFIG, price_points, exchange_rates,
                   opportunities, FREE_TO_PLAY_CACHE>>
    /\ UNCHANGED converter_vars
    /\ UNCHANGED pass_vars

NextRisk ==
    \/ RecordPrice
    \/ CalculateRiskScore

SpecRisk == InitRisk /\ [][NextRisk]_vars

----------------------------------------------------------------------------
(* A long-lived CurrencyConverter *)

\* convert(amount, from_currency, to_currency) is called on the converter
Convert ==
    /\ \E from_currency, to_currency \in Currencies :
          LET call == convert_cached(_cache, _fallback_cache, 700,
                                     from_currency, to_currency)
          IN /\ _cache' = call.cache
             /\ _fallback_cache' = call.fallback_cache
             /\ ret' = Returned("convert",
                                [result |-> call.value, amount |-> 700,
                                 from_currency |-> from_currency,
                                 to_currency |-> to_currency],
                                FALSE)
    /\ UNCHANGED <<now, ticks, ARBITRAGE_CONFIG, price_points, exchange_rates,
                   opportunities, FREE_TO_PLAY_CACHE>>
    /\ UNCHANGED pass_vars

\* update_rate(from_currency, to_currency, rate): the row is added and
\* committed and the cache entry set; when the commit fails the handler rolls
\* back and the cache is left as it was.
UpdateRate ==
    /\ Len(exchange_rates) < MaxRates
    /\ \E pair \in CurrencyPairs, rate \in NewRates, failed \in BOOLEAN :
          /\ exchange_rates' =
                IF failed THEN exchange_rates
                ELSE Append(exchange_rates,
                            [from_currency |-> pair[1], to_currency |-> pair[2],
                             rate |-> rate, timestamp |-> now])
          /\ _cache' =
                IF failed THEN _cache
                ELSE [_cache EXCEPT ![pair] =
                         [found |-> TRUE, rate |-> rate, timestamp |-> now]]
          /\ ret' = Returned("update_rate",
                             [rate |-> rate, from_currency |-> pair[1],
                              to_currency |-> pair[2]],
                             failed)
    /\ UNCHANGED <<now, ticks, ARBITRAGE_CONFIG, price_points, opportunities,
                   FREE_TO_PLAY_CACHE, _fallback_cache>>
    /\ UNCHANGED pass_vars

NextConverter ==
    \/ Tick
    \/ Convert
    \/ UpdateRate

SpecConverter == Init /\ [][NextConverter]_vars

----------------------------------------------------------------------------
(* The pipeline over a hold time, its passes scheduled fairly *)

\* the clock moves past the hold time of anything detected so far
HoldTimePasses ==
    /\ ticks < MaxTicks
    /\ now' = now + ARBITRAGE_CONFIG.max_hold_time + 1
    /\ ticks' = ticks + 1
    /\ ret' = [Returned("none", 0, FALSE) EXCEPT !.current_time = now']
    /\ UNCHANGED <<ARBITRAGE_CONFIG, price_points, exchange_rates, opportunities,
                   FREE_TO_PLAY_CACHE>>
    /\ UNCHANGED converter_vars
    /\ UNCHANGED pass_vars

NextExpiry ==
    \/ HoldTimePasses
    \/ RecordPrice
    \/ FindOpportunities
    \/ Cleanup

\* The scheduler keeps running passes: the cleanup that opens every pass, the
\* only code that writes a status, is never put off for ever.
SpecExpiry ==
    /\ Init
    /\ [][NextExpiry]_vars
    /\ WF_vars(Cleanup)

----------------------------------------------------------------------------
(* monitor_prices as the scheduler and the request handler run it *)
(* A call goes through its stages one at a time, each call in a Session() of *)
(* its own; a change is pending in the session until a commit of that       *)
(* session succeeds, and a commit may fail.                                  *)

\* the tables the stages of a call are not followed into
pipeline_vars == <<now, ticks, ARBITRAGE_CONFIG, price_points, exchange_rates, opportunities, FREE_TO_PLAY_CACHE, _cache, _fallback_cache>>

\* session.rollback() of a handler that caught a failed commit, left out
Rollback_missing(pending) == pending

\* session.rollback(): nothing of what was pending is left in the session
Rollback(pending) == {}

\* session.commit() succeeds: all that is pending in the job's session is committed
CommitSucceeds(job, pending) ==
    /\ committed' = committed \cup ChangesOf(job, pending)
    /\ session' = [session EXCEPT ![job] = {}]
    /\ UNCHANGED commit_failure

\* session.commit() raises and the handler around it rolls back
CommitFails(job, pending) ==
    /\ session' = [session EXCEPT ![job] = Rollback(pending)]
    /\ commit_failure' = [commit_failure EXCEPT ![job] = [occurred |-> TRUE, lost |-> @.lost \cup pending]]
    /\ UNCHANGED committed

\* an active opportunity is in the table
OpportunityCommitted == \E change \in committed : change[3] = "opportunity"

\* how many calls the job can start: the startup job runs once
PassLimit(job) == IF job = "initial_price_monitor" THEN 1 ELSE MaxPasses

\* A job starts monitor_prices (app.py 84-113): the interval job when its two
\* minutes are over, the startup job once, and get_opportunities (409-413)
\* when its query finds no recent active opportunity.  A job does not start a
\* second call while its own call runs; nothing holds it back while another
\* job's call runs.
StartPass ==
    \E job \in Jobs :
        /\ pc[job] = "idle"
        /\ passes[job] < PassLimit(job)
        /\ job = "get_opportunities" => ~OpportunityCommitted
        /\ pc' = [pc EXCEPT ![job] = "cleanup"]
        /\ passes' = [passes EXCEPT ![job] = @ + 1]
        /\ session' = [session EXCEPT ![job] = {}]
        /\ commit_failure' = [commit_failure EXCEPT ![job] = NoFailure]
        /\ ret' = Returned("Session", 0, FALSE)
        /\ UNCHANGED committed
        /\ UNCHANGED pipeline_vars

\* monitor_prices, line 115, and cleanup_free_to_play_opportunities, lines
\* 398-407: with nothing to expire there is no commit; otherwise the status
\* changes are committed, or the commit fails, cleanup rolls back and returns
\* 0, and the call goes on.
PassCleanup ==
    \E job \in Jobs :
        /\ pc[job] = "cleanup"
        /\ \/ /\ ret' = Returned("cleanup_free_to_play_opportunities", 0, FALSE)
              /\ UNCHANGED <<session, committed, commit_failure>>
           \/ /\ OpportunityCommitted
              /\ CommitSucceeds(job, session[job] \cup {"status"})
              /\ ret' = Returned("cleanup_free_to_play_opportunities", 1, FALSE)
           \/ /\ OpportunityCommitted
              /\ CommitFails(job, session[job] \cup {"status"})
              /\ ret' = Returned("cleanup_free_to_play_opportunities", 0, TRUE)
        /\ pc' = [pc EXCEPT ![job] = "id_updates"]
        /\ UNCHANGED passes
        /\ UNCHANGED pipeline_vars

\* monitor_prices, lines 123-172: the identifier of a product listed in
\* id_updates is changed and the change committed; a failed commit ends the
\* call in the handler of lines 377-381.
PassIdUpdates ==
    \E job \in Jobs :
        /\ pc[job] = "id_updates"
        /\ \/ /\ CommitSucceeds(job, session[job] \cup {"identifier"})
              /\ pc' = [pc EXCEPT ![job] = "prices"]
              /\ ret' = Returned("id_updates", 0, FALSE)
           \/ /\ CommitFails(job, session[job] \cup {"identifier"})
              /\ pc' = [pc EXCEPT ![job] = "idle"]
              /\ ret' = Returned("monitor_prices", 0, TRUE)
        /\ UNCHANGED passes
        /\ UNCHANGED pipeline_vars

\* monitor_prices, lines 175-287: the price points of the pass are added and
\* committed; a failed commit ends the call in the handler of lines 377-381.
PassPrices ==
    \E job \in Jobs :
        /\ pc[job] = "prices"
        /\ \/ /\ CommitSucceeds(job, session[job] \cup {"price_point"})
              /\ pc' = [pc EXCEPT ![job] = "detect"]
              /\ ret' = Returned("prices", 0, FALSE)
           \/ /\ CommitFails(job, session[job] \cup {"price_point"})
              /\ pc' = [pc EXCEPT ![job] = "idle"]
              /\ ret' = Returned("monitor_prices", 0, TRUE)
        /\ UNCHANGED passes
        /\ UNCHANGED pipeline_vars

\* monitor_prices, lines 290-294: find_opportunities returns no opportunity,
\* or one that the loop of line 294 goes on to handle.
PassDetect ==
    \E job \in Jobs, found \in 0..1 :
        /\ pc[job] = "detect"
        /\ pc' = [pc EXCEPT ![job] = IF found = 0 THEN "finish" ELSE "notify"]
        /\ ret' = Returned("find_opportunities", found, FALSE)
        /\ UNCHANGED <<passes, session, committed, commit_failure>>
        /\ UNCHANGED pipeline_vars

\* monitor_prices, lines 294-373: the opportunity is added to the session and
\* notify_opportunity is called.  With no channel enabled nothing is logged
\* and the opportunity stays pending.  With a channel enabled
\* _log_notification (notification_system.py 256-270) adds a log and commits
\* the session; when that commit fails it rolls the session back and the
\* call goes on.
PassNotify ==
    \E job \in Jobs :
        /\ pc[job] = "notify"
        /\ \/ /\ session' = [session EXCEPT ![job] = @ \cup {"opportunity"}]
              /\ ret' = Returned("notify_opportunity", 0, FALSE)
              /\ UNCHANGED <<committed, commit_failure>>
           \/ /\ CommitSucceeds(job, session[job] \cup {"opportunity", "notification_log"})
              /\ ret' = Returned("_log_notification", 0, FALSE)
           \/ /\ CommitFails(job, session[job] \cup {"opportunity", "notification_log"})
              /\ ret' = Returned("_log_notification", 0, TRUE)
        /\ pc' = [pc EXCEPT ![job] = "finish"]
        /\ UNCHANGED passes
        /\ UNCHANGED pipeline_vars

\* monitor_prices, lines 375-381: the closing commit, or its failure and the
\* rollback of the handler; the session is closed either way.
PassFinish ==
    \E job \in Jobs :
        /\ pc[job] = "finish"
        /\ \/ /\ CommitSucceeds(job, session[job])
              /\ ret' = Returned("monitor_prices", 0, FALSE)
           \/ /\ CommitFails(job, session[job])
              /\ ret' = Returned("monitor_prices", 0, TRUE)
        /\ pc' = [pc EXCEPT ![job] = "idle"]
        /\ UNCHANGED passes
        /\ UNCHANGED pipeline_vars

NextPasses ==
    \/ StartPass
    \/ PassCleanup
    \/ PassIdUpdates
    \/ PassPrices
    \/ PassDetect
    \/ PassNotify
    \/ PassFinish

\* the deployment with the default configuration
InitPasses ==
    /\ Init
    /\ ARBITRAGE_CONFIG.min_profit_margin = 10

SpecPasses == InitPasses /\ [][NextPasses]_vars

----------------------------------------------------------------------------
(* find_opportunities on a store that fails *)

\* what the loop of find_opportunities starts from
StartOfRun ==
    [cache |-> FREE_TO_PLAY_CACHE, checked_free_games |-> {}, free_seen |-> {},
     processed_pairs |-> {}, analysed |-> {}, opportunities |-> << >>]

\* the source price point gets as far as its match-candidate query (lines
\* 69-93): its product is not free-to-play and its price passes line 89
ReachesTargetQuery(source_id, acc) ==
    LET product_id == price_points[source_id].product_id
        converted_buy_price == ConvertedPrice(price_points[source_id])
    IN /\ product_id \notin acc.checked_free_games
       /\ ~SkipFreeToPlay(_is_free_to_play(acc.cache, product_id).result)
       /\ converted_buy_price # None
       /\ ~ExceedsMaxInvestment(converted_buy_price)

RECURSIVE RaisingLoop(_, _, _, _)
\* the outer loop up to the source price point whose match-candidate query
\* raises: the rows before it go through the loop body, the row itself has its
\* product classified (line 75) before the query is made
RaisingLoop(order, rest, failed_at, acc) ==
    IF rest = << >> THEN [acc |-> acc, raised |-> FALSE]
    ELSE IF Head(rest) = failed_at /\ ReachesTargetQuery(failed_at, acc)
    THEN [acc |-> [acc EXCEPT !.cache = _is_free_to_play(acc.cache, price_points[failed_at].product_id).cache],
          raised |-> TRUE]
    ELSE RaisingLoop(order, Tail(rest), failed_at, SourceStep(order, Head(rest), acc))

\* One call in which a query raises: the query of line 55 (failed_at = 0) or
\* the match-candidate query of the source price point failed_at.  The handler
\* of lines 135-137 returns []; found is what the loop had collected by then.
find_opportunities_raising(order, failed_at) ==
    IF failed_at = 0
    THEN [raised |-> TRUE, cache |-> FREE_TO_PLAY_CACHE, found |-> << >>,
          opportunities |-> << >>]
    ELSE LET run == RaisingLoop(order, InOrder(order, recent_prices), failed_at, StartOfRun)
         IN [raised |-> run.raised, cache |-> run.acc.cache,
             found |-> run.acc.opportunities, opportunities |-> << >>]

\* the call as it would go with the failing source price point left out of the
\* outer loop
find_opportunities_skipping(order, failed_at) ==
    SourceLoop(order, InOrder(order, recent_prices \ {failed_at}), StartOfRun)

\* A detection in which the store fails: find_opportunities returns what its
\* handler returns and the caller has nothing to store.
FindOpportunitiesRaising ==
    \E order \in Orders, failed_at \in {0} \cup recent_prices :
        \E run \in {find_opportunities_raising(order, failed_at)} :
        /\ run.raised
        /\ FREE_TO_PLAY_CACHE' = run.cache
        /\ ret' = [Returned("find_opportunities", 0, TRUE)
                     EXCEPT !.call = {[failed_at |-> failed_at, order |-> order,
                                       found |-> run.found]},
                            !.opportunities = run.opportunities]
        /\ UNCHANGED <<now, ticks, ARBITRAGE_CONFIG, price_points, exchange_rates,
                       opportunities>>
        /\ UNCHANGED converter_vars
        /\ UNCHANGED pass_vars

NextFailures ==
    \/ RecordPrice
    \/ FindOpportunities
    \/ FindOpportunitiesRaising

SpecFailures == InitPasses /\ [][NextFailures]_vars

----------------------------------------------------------------------------
(* NotificationSystem.notify_opportunity *)

\* the channels in the order notify_opportunity lines them up (lines 26-33)
Channels == {"email", "telegram", "discord"}

\* the channels whose coroutine waits on the network (await bot.send_message,
\* async with session.post); the e-mail is sent with blocking calls
AwaitingChannels == {"telegram", "discord"}

\* what sending on a channel does
SendOutcomes == {"sent", "raises"}

\* how the store takes a notification log: it commits, the commit raises and
\* the rollback works, or the rollback raises as well
StoreOutcomes == {"ok", "commit_fails", "rollback_fails"}

\* _log_notification (lines 256-270): the status that ends up in
\* notification_logs ("none": no row) and whether the call raises
_log_notification(status, store) ==
    [logged |-> IF store = "ok" THEN status ELSE "none",
     raised |-> store = "rollback_fails"]

\* a channel coroutine without its except branch
_send_notification_unhandled(send, store) ==
    IF send = "sent"
    THEN _log_notification("sent", store)
    ELSE [logged |-> "none", raised |-> TRUE]

\* _send_email_notification, _send_telegram_notification and
\* _send_discord_notification (lines 41-109): the send and the log of 'sent'
\* are inside the try; the except branch logs 'failed', also when it was the
\* log of 'sent' that raised
_send_notification(send, store) ==
    IF send = "sent" /\ ~_log_notification("sent", store).raised
    THEN _log_notification("sent", store)
    ELSE _log_notification("failed", store)

\* notify_opportunity (lines 22-39) for the enabled channels.  gather hands
\* the first exception of a coroutine to notify_opportunity, which logs it and
\* returns; a coroutine still waiting on the network then (cut_short) is
\* cancelled when the event loop is closed and logs nothing.
notify_opportunity(enabled, send, store, cut_short) ==
    LET outcome == [c \in enabled |-> _send_notification(send[c], store[c])]
        cancelled == { c \in enabled \cap cut_short :
                         \E other \in enabled \ {c} : outcome[other].raised }
    IN [attempted |-> enabled,
        logged |-> [c \in enabled |->
                      IF c \in cancelled THEN "none" ELSE outcome[c].logged],
        propagated |-> FALSE]

\* One call of notify_opportunity.
NotifyOpportunity ==
    \E enabled \in SUBSET Channels, cut_short \in SUBSET AwaitingChannels :
      \E send \in [enabled -> SendOutcomes], store \in [enabled -> StoreOutcomes] :
        /\ ret' = [Returned("notify_opportunity", 0, FALSE)
                     EXCEPT !.call = {[enabled |-> enabled, send |-> send,
                                       store |-> store,
                                       call |-> notify_opportunity(enabled, send, store, cut_short)]}]
        /\ UNCHANGED pipeline_vars
        /\ UNCHANGED pass_vars

NextNotify == NotifyOpportunity

SpecNotify == InitPasses /\ [][NextNotify]_vars

----------------------------------------------------------------------------
(* NotificationSystem: the payloads *)

\* the 'Buy from' / 'Sell on' lines all three payloads are built from: the
\* buy line names opportunity.target_price, the sell line
\* opportunity.source_price
PayloadSides(opportunity) ==
    LET source_price == price_points[opportunity.source_price_id]
        target_price == price_points[opportunity.target_price_id]
    IN [buy |-> [marketplace_id |-> target_price.marketplace_id,
                 currency |-> target_price.currency,
                 price |-> target_price.price],
        sell |-> [marketplace_id |-> source_price.marketplace_id,
                  currency |-> source_price.currency,
                  price |-> source_price.price]]

\* the e-mail body, lines 111-152
_create_opportunity_html(opportunity) == PayloadSides(opportunity)

\* the Telegram text, lines 154-195
_create_opportunity_text(opportunity) == PayloadSides(opportunity)

\* the Discord embed, lines 197-254
_create_discord_embed(opportunity) == PayloadSides(opportunity)

----------------------------------------------------------------------------
(* _is_free_to_play called on its own, beside the Steam scraper's flag *)

\* how a call may fail before it has classified: the product query finds no
\* row (lines 150-152) or a query raises (lines 186-188)
ClassificationFailures == {"none", "product", "query"}

\* One call of _is_free_to_play, from whatever detector instance: a stored
\* classification is returned before anything is queried (lines 146-147);
\* otherwise a failure returns False and stores nothing.
IsFreeToPlay ==
    \E product_id \in Products, failure \in ClassificationFailures :
        LET stored == FREE_TO_PLAY_CACHE[product_id]
            run == IF stored = "unset" /\ failure # "none"
                   THEN [result |-> FALSE, cache |-> FREE_TO_PLAY_CACHE]
                   ELSE _is_free_to_play(FREE_TO_PLAY_CACHE, product_id)
        IN /\ FREE_TO_PLAY_CACHE' = run.cache
           /\ ret' = [Returned("_is_free_to_play", 0, stored = "unset" /\ failure = "query")
                        EXCEPT !.call = {[product_id |-> product_id, failure |-> failure,
                                          stored |-> stored, result |-> run.result]}]
           /\ UNCHANGED <<now, ticks, ARBITRAGE_CONFIG, price_points, exchange_rates,
                          opportunities>>
           /\ UNCHANGED converter_vars
           /\ UNCHANGED pass_vars

NextClassification ==
    \/ Tick
    \/ RecordPrice
    \/ SteamReportsFree
    \/ IsFreeToPlay

SpecClassification == InitPasses /\ [][NextClassification]_vars

----------------------------------------------------------------------------
(* PriceAnalyzer._detect_patterns *)
(* A series is a sequence indexed from 1; the position reported for a       *)
(* pattern is Python's index, one less.                                      *)

\* the price levels a series is drawn from
PriceLevels == {1, 2, 3}

\* the series the function is applied to: every series over the levels from
\* 5 points up to MaxSeriesLen points
PriceSeries == UNION { [1..n -> PriceLevels] : n \in 5..MaxSeriesLen }

\* the peak test with >= in place of >
IsPeak_not_strict(prices, i) ==
    /\ prices[i] >= prices[i-1] /\ prices[i] >= prices[i-2]
    /\ prices[i] >= prices[i+1] /\ prices[i] >= prices[i+2]

\* prices[i] > prices[i-1] and prices[i] > prices[i-2] and
\* prices[i] > prices[i+1] and prices[i] > prices[i+2]
IsPeak(prices, i) ==
    /\ prices[i] > prices[i-1] /\ prices[i] > prices[i-2]
    /\ prices[i] > prices[i+1] /\ prices[i] > prices[i+2]

\* prices[i] < prices[i-1] and prices[i] < prices[i-2] and
\* prices[i] < prices[i+1] and prices[i] < prices[i+2]
IsTrough(prices, i) ==
    /\ prices[i] < prices[i-1] /\ prices[i] < prices[i-2]
    /\ prices[i] < prices[i+1] /\ prices[i] < prices[i+2]

\* the indices range(2, len(prices)-2) runs over
InnerIndices(prices) == 3..(Len(prices) - 2)

\* the patterns reported for a series (the list, as the set of its entries):
\* none for a series of fewer than 10 points
_detect_patterns(prices) ==
    IF Len(prices) < MIN_PATTERN_POINTS THEN {}
    ELSE { [type |-> "peak", position |-> i - 1, value |-> prices[i]]
             : i \in { k \in InnerIndices(prices) : IsPeak(prices, k) } }
         \cup
         { [type |-> "trough", position |-> i - 1, value |-> prices[i]]
             : i \in { k \in InnerIndices(prices) : IsTrough(prices, k) } }

\* a series is at hand, nothing called on it yet
InitPatterns ==
    /\ now = 0
    /\ ticks = 0
    /\ ARBITRAGE_CONFIG \in { c \in Configs : c.min_profit_margin = 10 }
    /\ price_points = << >>
    /\ exchange_rates = StoredRates
    /\ opportunities = << >>
    /\ FREE_TO_PLAY_CACHE = [p \in Products |-> "unset"]
    /\ _cache = [pair \in CurrencyPairs |-> NoCachedRate]
    /\ _fallback_cache = [pair \in CurrencyPairs |-> 0]
    /\ pc = [job \in Jobs |-> "idle"]
    /\ passes = [job \in Jobs |-> 0]
    /\ session = [job \in Jobs |-> {}]
    /\ committed = {}
    /\ commit_failure = [job \in Jobs |-> NoFailure]
    /\ \E prices \in PriceSeries :
          ret = [Returned("none", 0, FALSE) EXCEPT !.call = {[prices |-> prices, patterns |-> {}]}]

\* _detect_patterns is called on the series
DetectPatterns ==
    /\ ret.op = "none"
    /\ ret' = [Returned("_detect_patterns", 0, FALSE)
                 EXCEPT !.call = {[prices |-> CallOf(ret).prices,
                                   patterns |-> _detect_patterns(CallOf(ret).prices)]}]
    /\ UNCHANGED pipeline_vars
    /\ UNCHANGED pass_vars

NextPatterns == DetectPatterns

SpecPatterns == InitPatterns /\ [][NextPatterns]_vars

----------------------------------------------------------------------------
(* Properties of the detection pass *)

SourceOf(call) == price_points[call.source_price_id]

TargetOf(call) == price_points[call.target_price_id]

Returned_opportunities == { ret.opportunities[i] : i \in DOMAIN ret.opportunities }

\* C1: every opportunity find_opportunities returns has, at creation, buy
\* price plus the buy marketplace's fees on it strictly below sell price minus
\* the sell marketplace's fees on it (source = buy side, target = sell side).
C1_BuyCostBelowSellProceeds ==
    \A o \in Returned_opportunities :
        o.converted_buy_price.amount
            + calculate_fees(SourceOf(o).marketplace_id, o.converted_buy_price.amount)
        < o.converted_sell_price.amount
            - calculate_fees(TargetOf(o).marketplace_id, o.converted_sell_price.amount)

\* C2: the two converted prices of every pair handed to the fee model are
\* amounts of one and the same currency.
C2_OneSettlementCurrency ==
    \A a \in ret.analysed :
        a.converted_buy_price.currency = a.converted_sell_price.currency

\* C3: for every analysed pair the buy fees are the source marketplace's
\* schedule applied to the buy price, the sell fees the target marketplace's
\* schedule applied to the sell price, and net profit is the price difference
\* minus both.
C3_FeesOfEachSide ==
    \A a \in ret.analysed :
        LET buy == a.converted_buy_price.amount
            sell == a.converted_sell_price.amount
        IN /\ a.profit_data.buy_fees = calculate_fees(SourceOf(a).marketplace_id, buy)
           /\ a.profit_data.sell_fees = calculate_fees(TargetOf(a).marketplace_id, sell)
           /\ a.profit_data.net_profit =
                  (sell - buy) - (a.profit_data.buy_fees + a.profit_data.sell_fees)

\* net / buy * 100 >= min_profit_margin and net >= min_absolute_profit, for a
\* positive buy price (both sides of the first comparison divided by 100)
ClearsMinimums(net, buy) ==
    /\ net >= ARBITRAGE_CONFIG.min_profit_margin * (buy \div 100)
    /\ net >= ARBITRAGE_CONFIG.min_absolute_profit

\* C4: an analysed pair without N/A prices (and with a positive buy price) is
\* in the returned list exactly when its margin net / buy * 100 is at least
\* min_profit_margin and its net profit at least min_absolute_profit, both
\* boundaries included.
C4_MinimumsInclusive ==
    \A a \in ret.analysed :
        (/\ SourceOf(a).price # SENTINEL_PRICE
         /\ TargetOf(a).price # SENTINEL_PRICE
         /\ a.converted_buy_price.amount > 0)
        => ((a \in Returned_opportunities)
              <=> ClearsMinimums(a.profit_data.net_profit,
                                 a.converted_buy_price.amount))

\* a returned opportunity whose margin is exactly min_profit_margin
C4_Witness ==
    \E a \in Returned_opportunities :
        /\ a.converted_buy_price.amount > 0
        /\ a.profit_data.net_profit
              = ARBITRAGE_CONFIG.min_profit_margin
                  * (a.converted_buy_price.amount \div 100)

\* C5: every returned opportunity references two distinct price points of the
\* same product on two different marketplaces, both stamped within the hour
\* before the pass started.
C5_PairWithinWindow ==
    \A o \in Returned_opportunities :
        /\ o.source_price_id # o.target_price_id
        /\ SourceOf(o).product_id = TargetOf(o).product_id
        /\ SourceOf(o).marketplace_id # TargetOf(o).marketplace_id
        /\ SourceOf(o).timestamp >= ret.current_time - 1
        /\ SourceOf(o).timestamp <= ret.current_time
        /\ TargetOf(o).timestamp >= ret.current_time - 1
        /\ TargetOf(o).timestamp <= ret.current_time

\* an opportunity was returned while the table also held a price point of
\* another product or one older than the window
C5_Witness ==
    /\ ret.op = "find_opportunities"
    /\ \E o \in Returned_opportunities :
          \E k \in DOMAIN price_points :
              \/ price_points[k].product_id # SourceOf(o).product_id
              \/ price_points[k].timestamp < ret.current_time - 1

\* the (buy, sell) pairs a run returns
PairsOf(run) ==
    { << run.opportunities[i].source_price_id, run.opportunities[i].target_price_id >>
        : i \in DOMAIN run.opportunities }

\* no two entries of the list are about the same two price points
OnePerUnorderedPair(list) ==
    \A i, j \in DOMAIN list :
        i # j => {list[i].source_price_id, list[i].target_price_id}
                  # {list[j].source_price_id, list[j].target_price_id}

\* C6: whatever the order in which the rows are iterated, a run returns at
\* most one opportunity per unordered pair of price points, and the set of
\* (buy, sell) pairs returned is the same for every order.
C6_OrderIndependent ==
    LET runs == { find_opportunities(o) : o \in Orders } IN
    /\ OnePerUnorderedPair(ret.opportunities)
    /\ \A r \in runs : OnePerUnorderedPair(r.opportunities)
    /\ \A r1, r2 \in runs : PairsOf(r1) = PairsOf(r2)

\* a pass over three price points returned two opportunities
C6_Witness ==
    /\ ret.op = "find_opportunities"
    /\ Len(ret.opportunities) = 2
    /\ Cardinality(recent_prices) = 3

\* C7: no returned opportunity is about a product _is_free_to_play answered
\* True for during the pass.
C7_NoFreeToPlayProduct ==
    \A o \in Returned_opportunities : SourceOf(o).product_id \notin ret.free_seen

\* a pass found a product free-to-play although the window held a cheaper and
\* a dearer price point of it on two marketplaces
C7_Witness ==
    /\ ret.op = "find_opportunities"
    /\ \E s, t \in recent_prices :
          /\ price_points[s].product_id \in ret.free_seen
          /\ price_points[t].product_id = price_points[s].product_id
          /\ price_points[s].marketplace_id # price_points[t].marketplace_id
          /\ price_points[s].price > 0
          /\ price_points[s].price < price_points[t].price

\* C8: no returned opportunity has the N/A price -1 on its buy or sell side.
C8_NoSentinelPrice ==
    \A o \in Returned_opportunities :
        /\ SourceOf(o).price # SENTINEL_PRICE
        /\ TargetOf(o).price # SENTINEL_PRICE

\* a pass analysed a pair with an N/A price in it
C8_Witness ==
    /\ ret.op = "find_opportunities"
    /\ \E a \in ret.analysed :
          SourceOf(a).price = SENTINEL_PRICE \/ TargetOf(a).price = SENTINEL_PRICE

\* convert has neither a stored rate in the validity window nor a fallback
\* for the pair
NoRateNorFallback(from_currency, to_currency) ==
    /\ from_currency # to_currency
    /\ ValidRates(from_currency, to_currency) = {}
    /\ <<from_currency, to_currency>> \notin {<<"USD", "EUR">>, <<"EUR", "USD">>}

\* C14: convert returns None for a pair with neither a valid stored rate nor
\* a fallback; after a pass no returned opportunity and no analysed pair has a
\* price point whose conversion failed, and none carries a zero price.
C14_FailedConversionSkipped ==
    /\ \A from_currency, to_currency \in Currencies :
          NoRateNorFallback(from_currency, to_currency)
          => convert(700, from_currency, to_currency) = None
    /\ \A a \in ret.analysed \cup Returned_opportunities :
          /\ ConvertedPrice(SourceOf(a)) # None
          /\ ConvertedPrice(TargetOf(a)) # None
          /\ a.converted_buy_price = ConvertedPrice(SourceOf(a))
          /\ a.converted_sell_price = ConvertedPrice(TargetOf(a))
          /\ a.converted_buy_price.amount # 0
          /\ a.converted_sell_price.amount # 0

\* a pass returned an opportunity while the window held a dearer price point
\* of the same product, on another marketplace than the buy side, whose
\* conversion fails
C14_Witness ==
    /\ ret.op = "find_opportunities"
    /\ \E o \in Returned_opportunities :
          \E k \in recent_prices :
              /\ price_points[k].product_id = SourceOf(o).product_id
              /\ price_points[k].marketplace_id # SourceOf(o).marketplace_id
              /\ price_points[k].price > SourceOf(o).price
              /\ ConvertedPrice(price_points[k]) = None

\* C16, as claimed: no returned opportunity has a converted price above
\* max_investment on its buy side or on its sell side.
C16_NeitherSideAboveMaxInvestment ==
    \A o \in Returned_opportunities :
        /\ o.converted_buy_price.amount <= ARBITRAGE_CONFIG.max_investment
        /\ o.converted_sell_price.amount <= ARBITRAGE_CONFIG.max_investment

\* C16, amended: no returned opportunity has a converted buy price above
\* max_investment.
C16_BuySideWithinMaxInvestment ==
    \A o \in Returned_opportunities :
        o.converted_buy_price.amount <= ARBITRAGE_CONFIG.max_investment

\* a pass has run over a price point that costs more than max_investment and
\* a dearer one of the same product on another marketplace
C16_Witness ==
    /\ ret.op = "find_opportunities"
    /\ \E s, t \in recent_prices :
          /\ price_points[s].product_id = price_points[t].product_id
          /\ price_points[s].marketplace_id # price_points[t].marketplace_id
          /\ price_points[s].product_id \notin ret.free_seen
          /\ ConvertedPrice(price_points[s]) # None
          /\ ConvertedPrice(price_points[t]) # None
          /\ ConvertedPrice(price_points[s]).amount > ARBITRAGE_CONFIG.max_investment
          /\ ConvertedPrice(price_points[t]).amount
                > ConvertedPrice(price_points[s]).amount

----------------------------------------------------------------------------
(* Properties of the free-to-play classification *)

\* the price point is its marketplace's latest one of the product in the
\* last 24 hours
LatestOnMarketplace(i) ==
    \A j \in RecentPricesOfProduct(price_points[i].product_id) :
        price_points[j].marketplace_id = price_points[i].marketplace_id
        => \/ price_points[j].timestamp < price_points[i].timestamp
           \/ (price_points[j].timestamp = price_points[i].timestamp /\ j <= i)

\* C9: a first, uncached classification answers True exactly when some
\* trusted marketplace's latest price point of the product within 24 hours is
\* below 1; a superseded older one does not count.
C9_LatestObservationDecides ==
    \A p \in Products :
        FREE_TO_PLAY_CACHE[p] = "unset"
        => (_is_free_to_play(FREE_TO_PLAY_CACHE, p).result
              <=> \E i \in RecentPricesOfProduct(p) :
                     /\ IsFreePricePoint(price_points[i])
                     /\ LatestOnMarketplace(i))

\* C10: a cleanup that returns without a persistence error expires every
\* active opportunity for whose product a trusted marketplace has recorded,
\* after the opportunity was detected and within the last 24 hours, a price
\* below the threshold.
C10_CleanupExpiresReclassified ==
    [][ (ret'.op = "cleanup_free_to_play_opportunities" /\ ~ret'.error)
        => \A i \in DOMAIN opportunities :
              (/\ opportunities[i].status = "active"
               /\ \E k \in DOMAIN price_points :
                     /\ price_points[k].product_id
                          = price_points[opportunities[i].source_price_id].product_id
                     /\ IsFreePricePoint(price_points[k])
                     /\ price_points[k].timestamp > opportunities[i].detected_at
                     /\ price_points[k].timestamp >= now - 24)
              => opportunities'[i].status = "expired" ]_vars

----------------------------------------------------------------------------
(* Properties of the opportunity lifecycle *)

\* the opportunities a step moves from active to expired
MovedToExpired ==
    { i \in DOMAIN opportunities :
        opportunities[i].status = "active" /\ opportunities'[i].status = "expired" }

\* C11: the value a successful cleanup returns is the number of opportunities
\* it moved from active to expired, and a second call made right after it
\* would return 0 and expire nothing.
C11_CleanupIdempotent ==
    [][ (ret'.op = "cleanup_free_to_play_opportunities" /\ ~ret'.error)
        => /\ ret'.value = Cardinality(MovedToExpired)
           /\ cleanup_free_to_play_opportunities'.count = 0
           /\ cleanup_free_to_play_opportunities'.expired = {} ]_vars

\* a cleanup has just expired an opportunity
C11_Witness ==
    /\ ret.op = "cleanup_free_to_play_opportunities"
    /\ ~ret.error
    /\ ret.value >= 1
    /\ \E i \in DOMAIN opportunities : opportunities[i].status = "expired"

\* C12: every opportunity has expires_at = detected_at + max_hold_time, and an
\* active opportunity whose expires_at has passed is eventually expired.
C12_ExpiresAfterHoldTime ==
    /\ [](\A i \in DOMAIN opportunities :
             opportunities[i].expires_at
                 = opportunities[i].detected_at + ARBITRAGE_CONFIG.max_hold_time)
    /\ \A i \in 1..MaxOpps :
          (/\ i \in DOMAIN opportunities
           /\ opportunities[i].status = "active"
           /\ opportunities[i].expires_at < now)
          ~> (i \in DOMAIN opportunities /\ opportunities[i].status = "expired")

\* C13: a step of the pipeline keeps every stored opportunity, adds only
\* opportunities with status active, and changes a stored one only by moving
\* its status from active to expired.
C13_OnlyActiveToExpired ==
    [][ /\ DOMAIN opportunities \subseteq DOMAIN opportunities'
        /\ \A i \in DOMAIN opportunities' :
              IF i \in DOMAIN opportunities
              THEN \/ opportunities'[i] = opportunities[i]
                   \/ /\ opportunities[i].status = "active"
                      /\ opportunities'[i]
                            = [opportunities[i] EXCEPT !.status = "expired"]
              ELSE opportunities'[i].status = "active" ]_vars

\* a cleanup has run over a table that holds an expired opportunity and has
\* expired nothing
C13_Witness ==
    /\ ret.op = "cleanup_free_to_play_opportunities"
    /\ ret.value = 0
    /\ ~ret.error
    /\ \E i \in DOMAIN opportunities : opportunities[i].status = "expired"

----------------------------------------------------------------------------
(* Properties of the currency converter *)

\* C15: a convert for a pair that has a stored rate inside the validity
\* window returns the amount times the most recent such rate, whatever was
\* converted or updated before; the fallback is returned only when there is
\* no such rate.
C15_LatestStoredRateUsed ==
    ret.op = "convert"
    => LET call == ret.value
           stored == _get_exchange_rate(call.from_currency, call.to_currency)
       IN call.from_currency # call.to_currency
          => IF stored.found
             THEN call.result = [amount |-> call.amount * stored.rate * 100,
                                 currency |-> call.to_currency]
             ELSE call.result = convert(call.amount, call.from_currency,
                                        call.to_currency)

----------------------------------------------------------------------------
(* Properties of the risk score *)

\* the four factors of a call, as a set
FactorsOf(call) ==
    { call.risk_factors.price_volatility, call.risk_factors.marketplace_reliability,
      call.risk_factors.time_sensitivity, call.risk_factors.currency_risk }

\* 0.3 * volatility + 0.3 * reliability + 0.2 * time + 0.2 * currency
WeightedSum(call) ==
    3 * call.risk_factors.price_volatility
    + 3 * call.risk_factors.marketplace_reliability
    + 2 * call.risk_factors.time_sensitivity
    + 2 * call.risk_factors.currency_risk

\* C17: a returned risk score lies in [0,1]; when the body of
\* _calculate_risk_score completes, every factor lies in [0,1] and the score
\* is the weighted sum 0.3/0.3/0.2/0.2 of the factors clamped to [0,1].
C17_RiskScoreInUnitInterval ==
    ret.op = "_calculate_risk_score"
    => /\ ret.value.score >= 0
       /\ ret.value.score <= 100
       /\ ret.value.failure # "risk_score"
            => /\ \A f \in FactorsOf(ret.value) : f >= 0 /\ f <= 10
               /\ ret.value.score
                    = IF WeightedSum(ret.value) < 0 THEN 0
                      ELSE IF WeightedSum(ret.value) > 100 THEN 100
                      ELSE WeightedSum(ret.value)

\* a score was computed for a product whose prices have a standard
\* deviation above their mean
C17_Witness ==
    /\ ret.op = "_calculate_risk_score"
    /\ ret.value.failure = "none"
    /\ LET product_id == price_points[ret.value.source_price_id].product_id
           prices == [i \in price_history(product_id) |-> price_points[i].price]
       IN SumOf(prices, DOMAIN prices) > 0 /\ StdOverMean(prices) > 10

\* C18, as claimed: whenever a step of the scoring raises, in
\* _calculate_risk_score itself or inside a factor helper, the score returned
\* is exactly 0.5.
C18_AnyFailureYieldsNeutralScore ==
    (ret.op = "_calculate_risk_score" /\ ret.value.failure # "none")
    => ret.value.score = 50

\* C18, amended: an exception raised in _calculate_risk_score itself yields
\* the score 0.5; an exception inside a factor helper makes that factor 0.5
\* and the score is the clamped weighted sum taken with it.
C18_FailureYieldsNeutralDefault ==
    ret.op = "_calculate_risk_score"
    => LET call == ret.value IN
       /\ call.failure = "risk_score" => call.score = 50
       /\ call.failure = "price_volatility"
            => call.risk_factors.price_volatility = 5
       /\ call.failure = "time_sensitivity"
            => call.risk_factors.time_sensitivity = 5
       /\ call.failure = "currency_risk"
            => call.risk_factors.currency_risk = 5
       /\ call.failure \in {"price_volatility", "time_sensitivity", "currency_risk"}
            => call.score = Min(WeightedSum(call), 100)

\* _calculate_risk_score raised for a pair whose score would not have been
\* 0.5 otherwise
C18_Witness ==
    /\ ret.op = "_calculate_risk_score"
    /\ ret.value.failure = "risk_score"
    /\ _calculate_risk_score(ret.value.source_price_id, ret.value.target_price_id,
                             ret.value.is_sale, "none").score # 50

----------------------------------------------------------------------------
(* Properties of the monitor_prices calls *)

\* the jobs whose monitor_prices call is executing
Running == { job \in Jobs : pc[job] # "idle" }

\* C19: at most one detection pass executes at a time, whether it was started
\* by the interval job, by the startup job or by a request to
\* /api/opportunities.
C19_OnePassAtATime == Cardinality(Running) <= 1

\* the changes of the job's latest call that are committed
CommittedBy(job) == { change \in committed : change[1] = job /\ change[2] = passes[job] }

\* the job's latest call is over and a commit of it failed
EndedInFailure(job) == pc[job] = "idle" /\ commit_failure[job].occurred

\* C20: after a call of monitor_prices in which a commit failed, none of the
\* call's changes is committed: the call committed all of them or none.
C20_FailedPassCommitsNothing ==
    \A job \in Jobs : EndedInFailure(job) => CommittedBy(job) = {}

\* C20, amended: each commit is all or nothing, the call is not.  What was
\* pending in the session when a commit failed is rolled back and is committed
\* by no later commit of the call, and nothing is pending once the call is
\* over; what earlier commits of the call committed stays committed.
C20_FailedCommitLosesOnlyItsPending ==
    \A job \in Jobs :
        /\ CommittedBy(job) \cap ChangesOf(job, commit_failure[job].lost) = {}
        /\ pc[job] = "idle" => session[job] = {}

\* a call is over in which the commit of the notification log failed, losing
\* the opportunity, after the identifiers and the price points were committed
C20_Witness ==
    \E job \in Jobs :
        /\ EndedInFailure(job)
        /\ "opportunity" \in commit_failure[job].lost
        /\ ChangesOf(job, {"identifier", "price_point"}) \subseteq CommittedBy(job)

\* find_opportunities returned an opportunity in the job's current call: it
\* was added to the session at line 295, whatever became of it since
OpportunityFound(job) ==
    \/ "opportunity" \in session[job] \cup commit_failure[job].lost
    \/ ChangesOf(job, {"opportunity"}) \subseteq committed

\* C24: a notification that fails, in its send or in the recording of its
\* outcome, never makes an opportunity be dropped: when the closing commit of
\* a call succeeds, the opportunity find_opportunities returned in that call
\* is persisted.
C24_NotificationNeverDropsOpportunity ==
    [][ \A job \in Jobs :
          (pc[job] = "finish" /\ pc'[job] = "idle" /\ ~ret'.error /\ OpportunityFound(job))
          => ChangesOf(job, {"opportunity"}) \subseteq committed' ]_vars

----------------------------------------------------------------------------
(* Properties of find_opportunities on a store that fails *)

\* what the caller of find_opportunities has in hand after the call: the whole
\* body is inside try/except Exception, so nothing is ever raised to it
SeenByCaller(call) == [raised |-> FALSE, opportunities |-> call.opportunities]

\* C21: when the store is unavailable as find_opportunities starts, the
\* caller gets something it can tell from a successful pass that found
\* nothing; it does not get an empty list.
C21_StoreFailureSurfaced ==
    (ret.op = "find_opportunities" /\ ret.error /\ CallOf(ret).failed_at = 0)
    => SeenByCaller(ret) # SeenByCaller(Returned("find_opportunities", 0, FALSE))

\* C22: a failure on one observation, its match-candidate query included,
\* skips that observation only: the call returns the opportunities of the
\* other observations, those found before the failure among them.
C22_OnlyFailingObservationSkipped ==
    [][ (ret'.op = "find_opportunities" /\ ret'.error /\ CallOf(ret').failed_at # 0)
        => PairsOf(ret') = PairsOf(find_opportunities_skipping(CallOf(ret').order, CallOf(ret').failed_at)) ]_vars

----------------------------------------------------------------------------
(* Properties of the notifications *)

\* the status a channel's log row has to carry
StatusOf(send) == IF send = "sent" THEN "sent" ELSE "failed"

PayloadsOf(opportunity) ==
    { _create_opportunity_html(opportunity), _create_opportunity_text(opportunity),
      _create_discord_embed(opportunity) }

\* marketplace, currency and price of a price point, as a payload line has them
SideOf(pp) == [marketplace_id |-> pp.marketplace_id, currency |-> pp.currency, price |-> pp.price]

\* C25: every payload names as the buy side the marketplace and price of the
\* observation the detector bought at (the source, the cheaper one) and as the
\* sell side those of the observation it sold at (the target, the costlier).
C25_PayloadKeepsRoles ==
    \A o \in Returned_opportunities :
        \A payload \in PayloadsOf(o) :
            /\ payload.buy = SideOf(SourceOf(o))
            /\ payload.sell = SideOf(TargetOf(o))

----------------------------------------------------------------------------
(* Properties of the classification cache *)

\* some price point of the product inside the 24 hours is below the threshold
\* on a trusted marketplace
QualifyingObservation(product_id) ==
    \E i \in RecentPricesOfProduct(product_id) : IsFreePricePoint(price_points[i])

\* a call of _is_free_to_play has just returned for a product with a stored
\* classification, and it returned that classification
ReturnsStored ==
    (ret'.op = "_is_free_to_play" /\ CallOf(ret').stored # "unset")
    => CallOf(ret').result = (CallOf(ret').stored = "true")

\* C26: a classification stored for a product never changes, and every later
\* call of _is_free_to_play for the product returns it.
C26_StoredClassificationKept ==
    [][ /\ \A p \in Products :
              FREE_TO_PLAY_CACHE[p] # "unset" => FREE_TO_PLAY_CACHE'[p] = FREE_TO_PLAY_CACHE[p]
        /\ ReturnsStored ]_vars

\* C26, amended: a stored True never changes; a stored False changes only to
\* True and never by a call of _is_free_to_play (it is monitor_prices that
\* sets it, when the Steam scraper reports the product free); every call of
\* _is_free_to_play returns the classification stored when it is made.
C26_StoredClassificationOnlyRaised ==
    [][ /\ \A p \in Products :
              /\ FREE_TO_PLAY_CACHE[p] = "true" => FREE_TO_PLAY_CACHE'[p] = "true"
              /\ FREE_TO_PLAY_CACHE[p] = "false" => FREE_TO_PLAY_CACHE'[p] \in {"false", "true"}
              /\ (FREE_TO_PLAY_CACHE[p] = "false" /\ FREE_TO_PLAY_CACHE'[p] = "true")
                 => ret'.op # "_is_free_to_play"
        /\ ReturnsStored ]_vars

\* a call returned the stored False for a product that by now has a
\* sub-threshold price point on a trusted marketplace
C26_Witness ==
    /\ ret.op = "_is_free_to_play"
    /\ CallOf(ret).stored = "false"
    /\ ~CallOf(ret).result
    /\ QualifyingObservation(CallOf(ret).product_id)

\* C30: a call for an unclassified product that has no price point inside the
\* 24 hours, or that fails on the product or on a query, returns False and
\* stores nothing; a call for an unclassified product that does have a
\* qualifying price point (and does not fail) returns True.
C30_AbsenceNotStored ==
    [][ ret'.op = "_is_free_to_play"
        => LET call == CallOf(ret')
               p == call.product_id
           IN /\ (/\ FREE_TO_PLAY_CACHE[p] = "unset"
                  /\ (RecentPricesOfProduct(p) = {} \/ call.failure # "none"))
                 => (~call.result /\ FREE_TO_PLAY_CACHE'[p] = "unset")
              /\ (/\ FREE_TO_PLAY_CACHE[p] = "unset"
                  /\ call.failure = "none"
                  /\ QualifyingObservation(p))
                 => (call.result /\ FREE_TO_PLAY_CACHE'[p] = "true") ]_vars

\* a call returned True on a qualifying price point for a product whose
\* earlier price point has left the 24 hours, nothing having been stored for
\* it in between
C30_Witness ==
    /\ ret.op = "_is_free_to_play"
    /\ CallOf(ret).stored = "unset"
    /\ CallOf(ret).result
    /\ \E i \in DOMAIN price_points :
          /\ price_points[i].product_id = CallOf(ret).product_id
          /\ i \notin RecentPricesOfProduct(CallOf(ret).product_id)

----------------------------------------------------------------------------
(* Properties of the pattern detection *)

\* a pattern of the type is reported at Python index i - 1
ReportedAt(call, type, i) ==
    \E pattern \in call.patterns : pattern.type = type /\ pattern.position = i - 1

\* the four points around index i
Surrounding(i) == {i - 2, i - 1, i + 1, i + 2}

\* the indices that have two neighbours on each side
WithTwoNeighbours(prices) == { i \in DOMAIN prices : Surrounding(i) \subseteq DOMAIN prices }

\* at every index with two neighbours on each side a peak is reported exactly
\* where the price is strictly above all four, a trough exactly where it is
\* strictly below
ReportsExactly(call) ==
    \A i \in WithTwoNeighbours(call.prices) :
        /\ ReportedAt(call, "peak", i)
           <=> \A j \in Surrounding(i) : call.prices[i] > call.prices[j]
        /\ ReportedAt(call, "trough", i)
           <=> \A j \in Surrounding(i) : call.prices[i] < call.prices[j]

\* C27: for every series of at least 5 points, a peak (a trough) is reported
\* at an index with two neighbours on each side if and only if the price
\* there is strictly greater (less) than the four around it.
C27_PatternsFromFivePoints ==
    ret.op = "_detect_patterns" => ReportsExactly(CallOf(ret))

\* C27, amended: that holds for every series of at least 10 points; for a
\* shorter series nothing is reported.
C27_PatternsFromTenPoints ==
    ret.op = "_detect_patterns"
    => LET call == CallOf(ret) IN
       /\ Len(call.prices) >= 10 => ReportsExactly(call)
       /\ Len(call.prices) < 10 => call.patterns = {}

\* a series of 10 points with a plateau that is no peak, for which a peak and
\* a trough are reported
C27_Witness ==
    /\ ret.op = "_detect_patterns"
    /\ \E i, j \in WithTwoNeighbours(CallOf(ret).prices) :
          /\ ReportedAt(CallOf(ret), "peak", i)
          /\ ReportedAt(CallOf(ret), "trough", j)
    /\ \E i \in WithTwoNeighbours(CallOf(ret).prices) :
          /\ \A j \in Surrounding(i) : CallOf(ret).prices[i] >= CallOf(ret).prices[j]
          /\ ~ReportedAt(CallOf(ret), "peak", i)

----------------------------------------------------------------------------
(* Properties of the sentinel price and of repeated passes *)

\* a price point of the product, whenever recorded, that is below the
\* threshold on a trusted marketplace and is a price, not the N/A placeholder
PricedBelowThreshold(product_id) ==
    \E i \in DOMAIN price_points :
        /\ price_points[i].product_id = product_id
        /\ IsFreePricePoint(price_points[i])
        /\ price_points[i].price # SENTINEL_PRICE

\* C28: the N/A placeholder -1 never by itself makes a product be classified
\* free-to-play: a product stored as free-to-play has had a real price below
\* the threshold on a trusted marketplace.
C28_SentinelNeverExcludes ==
    \A p \in Products : FREE_TO_PLAY_CACHE[p] = "true" => PricedBelowThreshold(p)

\* C29: over any sequence of passes, at most one opportunity is persisted for
\* a pair of price points (buy, sell).
C29_OneOpportunityPerPair ==
    \A i, j \in DOMAIN opportunities :
        i # j => << opportunities[i].source_price_id, opportunities[i].target_price_id >>
                 # << opportunities[j].source_price_id, opportunities[j].target_price_id >>

====
